---- MODULE Spec2Model ----
(***************************************************************************)
(* Catalog synchronisation of the NeoCart backend.                         *)
(*                                                                         *)
(*   backend/excel_updater.py  run_seeding: fetch the sheet and upsert it  *)
(*                             into the products table under update_lock   *)
(*   backend/file_watcher.py   watch_google_sheet: poll the sheet's MD5    *)
(*                             and call run_seeding when it changed        *)
(*   backend/api_routes.py     admin_upload_excel: upsert an uploaded      *)
(*                             workbook into the products table            *)
(*                                                                         *)
(* Numbers are kept in tenths (35 is 3.5) so that int() truncation of a    *)
(* fractional cell is visible.  A spreadsheet cell is <<"num", n>> or      *)
(* <<"str", s>>.                                                           *)
(***************************************************************************)
EXTENDS Integers, Sequences, FiniteSets, TLC

(***************************************************************************)
(* Bounds of the model.                                                    *)
(***************************************************************************)
MaxRows == 2
MaxCalls == 2
MaxQty == 3

(***************************************************************************)
(* Values.                                                                 *)
(***************************************************************************)
\* Python's None where a digest is expected (get_file_hash's failure result,
\* the initial _last_hash): the only falsy value a digest variable takes.
NoHash == <<>>

Names == {"a", "b"}

Num(n) == <<"num", n>>
Str(s) == <<"str", s>>

\* Strings for which Python's float() and int() succeed, with their value.
NumericStrings == {"7"}
StringValue(s) == IF s = "7" THEN 70 ELSE 0

\* The cell row[column] of a workbook that has no such column: reading it
\* raises KeyError.
Absent == <<"absent", "">>

\* float(cell): a number is kept, a numeric string is parsed, anything else
\* (including the '' that fillna puts in an empty cell) raises ValueError.
FloatRaises(c) == c[1] = "absent" \/ (c[1] = "str" /\ c[2] \notin NumericStrings)
PyFloat(c) == IF c[1] = "num" THEN c[2] ELSE StringValue(c[2])

\* int(cell): a number is truncated toward zero, a string must be an integer
\* literal.
IntRaises(c) == c[1] = "absent" \/ (c[1] = "str" /\ c[2] \notin NumericStrings)
PyInt(c) == IF c[1] = "num" THEN (c[2] \div 10) * 10 ELSE StringValue(c[2])

(***************************************************************************)
(* Rows of the sheet after df.fillna('').  The columns of a row vary       *)
(* together with its variant.                                              *)
(***************************************************************************)
GoodVariants == {"v1", "v2"}
BadVariants == {"badprice", "badstock"}
Variants == GoodVariants \cup BadVariants

MkRow(n, v) ==
    [name |-> n,
     description |-> IF v = "v2" THEN "d2" ELSE "d1",
     original_price |-> IF v = "badprice" THEN Str("x")
                        ELSE IF v = "v2" THEN Str("7") ELSE Num(1000),
     image_url |-> IF v = "v2" THEN "u2" ELSE "u1",
     stock |-> IF v = "badstock" THEN Str("")
               ELSE IF v = "v2" THEN Num(35) ELSE Num(50),
     retail_price |-> IF v = "v2" THEN Num(755) ELSE Num(800),
     wholesaler_price |-> IF v = "v2" THEN Num(600) ELSE Num(700)]

Rows == {MkRow(n, v) : n \in Names, v \in Variants}
GoodRows == {MkRow(n, v) : n \in Names, v \in GoodVariants}

SeqsUpTo(S, n) == UNION {[1..k -> S] : k \in 0..n}

\* A workbook: either bytes that read_excel cannot decode, or a table.
Garbage == [decodable |-> FALSE, rows |-> <<>>]
Table(rs) == [decodable |-> TRUE, rows |-> rs]
\* A workbook without a stock column.
NoStock(rs) == [k \in 1..Len(rs) |-> [rs[k] EXCEPT !.stock = Absent]]

Documents ==
    {Garbage} \cup {Table(rs) : rs \in SeqsUpTo(Rows, MaxRows)}
              \cup {Table(NoStock(rs)) : rs \in SeqsUpTo(GoodRows, MaxRows)}

\* hashlib.md5(content).hexdigest(): a non-empty string, equal for equal
\* bytes and (within the documents considered) different for different
\* bytes.
Md5(d) == <<"md5", d>>


(***************************************************************************)
(* The products table.  A row's id is its position; the table has no       *)
(* unique constraint on name (models.py) and nothing here deletes rows.    *)
(***************************************************************************)
Product(n, d, op, iu, st, rp, wp) ==
    [name |-> n, description |-> d, original_price |-> op, image_url |-> iu,
     stock |-> st, retail_price |-> rp, wholesaler_price |-> wp]

\* Variant: the filter compares another column with the row's name.
MatchingDescription(tbl, n) == {i \in 1..Len(tbl) : tbl[i].description = n}

\* The ids that db.query(Product).filter(Product.name == n) selects.  The
\* session is created with autoflush=False, so the query sees the committed
\* table only, never the session's pending inserts.
Matching(tbl, n) == {i \in 1..Len(tbl) : tbl[i].name = n}

\* A session (SessionLocal()): the objects loaded and modified, keyed by id,
\* each with the column values it was loaded with, and the objects added.
EmptySession == [upd |-> <<>>, ins |-> <<>>]

Loaded(s) == DOMAIN s.upd

\* The identity map: a row already loaded in this session is returned as the
\* session holds it, otherwise it is loaded from the table.
Object(s, tbl, i) == IF i \in Loaded(s) THEN s.upd[i].cur ELSE tbl[i]

Modify(s, tbl, i, obj) ==
    [s EXCEPT !.upd =
        [j \in Loaded(s) \cup {i} |->
            IF j # i THEN s.upd[j]
            ELSE [orig |-> IF i \in Loaded(s) THEN s.upd[i].orig ELSE tbl[i],
                  cur |-> obj]]]

\* Variant: the existing-product branch leaves image_url as it is.
AssignExistingNoImage(obj, row) ==
    IF \/ FloatRaises(row.original_price) \/ IntRaises(row.stock)
       \/ FloatRaises(row.retail_price) \/ FloatRaises(row.wholesaler_price)
    THEN [raised |-> TRUE, obj |-> obj] ELSE
    [raised |-> FALSE,
     obj |-> [obj EXCEPT !.description = row.description,
                         !.original_price = PyFloat(row.original_price),
                         !.stock = PyInt(row.stock),
                         !.retail_price = PyFloat(row.retail_price),
                         !.wholesaler_price = PyFloat(row.wholesaler_price)]]

\* The existing-product branch: the attributes are assigned one after the
\* other, and a coercion that raises leaves the earlier ones assigned.
AssignExisting(obj, row) ==
    LET s1 == [obj EXCEPT !.description = row.description] IN
    IF FloatRaises(row.original_price) THEN [raised |-> TRUE, obj |-> s1] ELSE
    LET s2 == [s1 EXCEPT !.original_price = PyFloat(row.original_price),
                         !.image_url = row.image_url] IN
    IF IntRaises(row.stock) THEN [raised |-> TRUE, obj |-> s2] ELSE
    LET s3 == [s2 EXCEPT !.stock = PyInt(row.stock)] IN
    IF FloatRaises(row.retail_price) THEN [raised |-> TRUE, obj |-> s3] ELSE
    LET s4 == [s3 EXCEPT !.retail_price = PyFloat(row.retail_price)] IN
    IF FloatRaises(row.wholesaler_price) THEN [raised |-> TRUE, obj |-> s4] ELSE
    [raised |-> FALSE,
     obj |-> [s4 EXCEPT !.wholesaler_price = PyFloat(row.wholesaler_price)]]

\* The new-product branch: the constructor's arguments are evaluated first,
\* so a coercion that raises constructs and adds nothing.
NewRaises(row) ==
    \/ FloatRaises(row.original_price)
    \/ IntRaises(row.stock)
    \/ FloatRaises(row.retail_price)
    \/ FloatRaises(row.wholesaler_price)

NewProduct(row) ==
    Product(row.name, row.description, PyFloat(row.original_price),
            row.image_url, PyInt(row.stock), PyFloat(row.retail_price),
            PyFloat(row.wholesaler_price))

\* db.commit(): the flush writes, for every modified object, the columns
\* whose value differs from the loaded one, then inserts the added objects.
FlushObject(row, u) ==
    LET W(f) == IF u.cur[f] # u.orig[f] THEN u.cur[f] ELSE row[f] IN
    Product(row.name, W("description"), W("original_price"), W("image_url"),
            W("stock"), W("retail_price"), W("wholesaler_price"))

FlushUpdates(tbl, upd) ==
    [i \in 1..Len(tbl) |->
        IF i \in DOMAIN upd THEN FlushObject(tbl[i], upd[i]) ELSE tbl[i]]

\* Variant: the commit keeps only the rows the run touched, as a sync that
\* mirrors the sheet would.
CommittedMirror(tbl, s) ==
    LET f == FlushUpdates(tbl, s.upd)
        kept == SelectSeq([i \in 1..Len(tbl) |-> i],
                          LAMBDA i : i \in DOMAIN s.upd)
    IN [k \in 1..Len(kept) |-> f[kept[k]]] \o s.ins

Committed(tbl, s) == FlushUpdates(tbl, s.upd) \o s.ins


(***************************************************************************)
(* The program's threads.  "watcher" runs watch_google_sheet, "trigger" is *)
(* any other thread that calls run_seeding, "admin" is a request handler   *)
(* running admin_upload_excel.                                             *)
(***************************************************************************)
Watcher == "watcher"
Trigger == "trigger"
Admin == "admin"
SyncProcs == {Watcher, Trigger}
Procs == SyncProcs \cup {Admin}

\* What EXCEL_URL answers: status 200 with the workbook, a status other
\* than 200, or no answer at all (requests.get raises).  The workbook behind
\* the URL is the same during an outage.
Statuses == {"ok", "http_error", "unreachable"}

VARIABLES
    remote,       \* what EXCEL_URL serves now
    store,        \* the committed products table
    update_lock,  \* excel_updater.update_lock: TRUE when held
    last_hash,    \* file_watcher._last_hash
    new_hash,     \* watch_google_sheet's local new_hash
    pc,           \* where each thread is
    content,      \* the bytes a thread fetched or was uploaded
    df,           \* the rows of a thread's DataFrame
    idx,          \* the row a thread's loop is at
    session,      \* a thread's db session
    added,        \* a thread's added / products_added
    updated,      \* a thread's updated / products_updated
    outcome,      \* how a thread's call ended
    prev,         \* history: how the watcher's latest run_seeding call ended
    log,          \* history: the uploads answered, when they are recorded
    cart,         \* the committed cart_items table
    cart_result   \* the latest cart call, what it returned and the table
                  \* it found

vars == <<remote, store, update_lock, last_hash, new_hash, pc, content, df,
          idx, session, added, updated, outcome, prev, log, cart, cart_result>>

hist == <<prev, log>>

carts == <<cart, cart_result>>

\* No cart call was made yet.
None == <<"None">>
NoCall == [op |-> "none", user |-> "", product |-> 0, amount |-> 0,
           value |-> None, before |-> <<>>]


\* The workbooks the sheet and the uploads take in the concurrent system.
SheetDocs ==
    {Garbage,
     Table(<<MkRow("a", "v1"), MkRow("b", "v2")>>),
     Table(<<MkRow("a", "v2"), MkRow("b", "badprice")>>)}

UploadDocs == SheetDocs

Init ==
    /\ remote \in [status : {"ok"}, body : SheetDocs]
    /\ store = <<>>
    /\ update_lock = FALSE
    /\ last_hash = NoHash
    /\ new_hash = NoHash
    /\ pc = [p \in Procs |-> IF p = Watcher THEN "sleep" ELSE "idle"]
    /\ content = [p \in Procs |-> Garbage]
    /\ df = [p \in Procs |-> <<>>]
    /\ idx = [p \in Procs |-> 0]
    /\ session = [p \in Procs |-> EmptySession]
    /\ added = [p \in Procs |-> 0]
    /\ updated = [p \in Procs |-> 0]
    /\ outcome = [p \in Procs |-> "none"]
    /\ prev = [result |-> "none", hash |-> NoHash]
    /\ log = <<>>
    /\ cart = <<>>
    /\ cart_result = NoCall

(***************************************************************************)
(* The environment: the sheet is edited, the URL goes down and comes back. *)
(***************************************************************************)
SheetEdited ==
    /\ UNCHANGED carts
    /\ UNCHANGED hist
    /\ \E d \in SheetDocs \ {remote.body} : remote' = [remote EXCEPT !.body = d]
    /\ UNCHANGED <<store, update_lock, last_hash, new_hash, pc, content, df,
                   idx, session, added, updated, outcome>>

StatusChanged ==
    /\ UNCHANGED carts
    /\ UNCHANGED hist
    /\ \E st \in Statuses \ {remote.status} :
           remote' = [remote EXCEPT !.status = st]
    /\ UNCHANGED <<store, update_lock, last_hash, new_hash, pc, content, df,
                   idx, session, added, updated, outcome>>

\* A call has returned: its locals and its result are gone.
Forget(p) ==
    /\ content' = [content EXCEPT ![p] = Garbage]
    /\ added' = [added EXCEPT ![p] = 0]
    /\ updated' = [updated EXCEPT ![p] = 0]
    /\ outcome' = [outcome EXCEPT ![p] = "none"]

(***************************************************************************)
(* file_watcher.py                                                         *)
(***************************************************************************)
GetFileHash(r) == IF r.status = "ok" THEN Md5(r.body) ELSE NoHash

\* Variant: an absent stored digest is not taken as a change.
HasChangedStored(new, last) == new # NoHash /\ last # NoHash /\ new # last

\* if new_hash and new_hash != _last_hash
HasChanged(new, last) == new # NoHash /\ new # last

\* One pass of the loop up to the call of run_seeding or the sleep.
WatcherTick ==
    /\ UNCHANGED carts
    /\ UNCHANGED hist
    /\ pc[Watcher] = "sleep"
    /\ new_hash' = GetFileHash(remote)
    /\ pc' = [pc EXCEPT ![Watcher] =
                 IF HasChanged(new_hash', last_hash) THEN "call" ELSE "sleep"]
    /\ UNCHANGED <<remote, store, update_lock, last_hash, content, df, idx,
                   session, added, updated, outcome>>

\* run_seeding() has returned: _last_hash = new_hash, then time.sleep.
WatcherReturns ==
    /\ UNCHANGED carts
    /\ pc[Watcher] = "ret"
    /\ prev' = [result |-> outcome[Watcher],
                hash |-> IF outcome[Watcher] = "ok"
                         THEN Md5(content[Watcher]) ELSE new_hash]
    /\ last_hash' = new_hash
    /\ pc' = [pc EXCEPT ![Watcher] = "sleep"]
    /\ Forget(Watcher)
    /\ UNCHANGED <<remote, store, update_lock, new_hash, df, idx, session>>

WatcherStore ==
    /\ WatcherReturns
    /\ UNCHANGED log

(***************************************************************************)
(* excel_updater.py: run_seeding, called by thread p.                      *)
(***************************************************************************)
TriggerInvoke ==
    /\ UNCHANGED carts
    /\ UNCHANGED hist
    /\ pc[Trigger] = "idle"
    /\ pc' = [pc EXCEPT ![Trigger] = "call"]
    /\ UNCHANGED <<remote, store, update_lock, last_hash, new_hash, content,
                   df, idx, session, added, updated, outcome>>

TriggerReturn ==
    /\ UNCHANGED carts
    /\ UNCHANGED hist
    /\ pc[Trigger] = "ret"
    /\ pc' = [pc EXCEPT ![Trigger] = "idle"]
    /\ Forget(Trigger)
    /\ UNCHANGED <<remote, store, update_lock, last_hash, new_hash, df, idx,
                   session>>

\* Variant: the lock is taken without testing whether it is held.
AcquireUntested(p) ==
    /\ UNCHANGED carts
    /\ UNCHANGED hist
    /\ pc[p] = "call"
    /\ update_lock' = TRUE
    /\ session' = [session EXCEPT ![p] = EmptySession]
    /\ pc' = [pc EXCEPT ![p] = "fetch"]
    /\ outcome' = [outcome EXCEPT ![p] = "running"]
    /\ UNCHANGED <<remote, store, last_hash, new_hash, content, df, idx,
                   added, updated>>

\* Variant: the skipped call goes through the finally clause and releases
\* the lock it never took.
AcquireSkipReleases(p) ==
    /\ UNCHANGED carts
    /\ UNCHANGED hist
    /\ pc[p] = "call"
    /\ IF update_lock
       THEN /\ pc' = [pc EXCEPT ![p] = "ret"]
            /\ outcome' = [outcome EXCEPT ![p] = "skipped"]
            /\ update_lock' = FALSE
            /\ UNCHANGED session
       ELSE /\ update_lock' = TRUE
            /\ session' = [session EXCEPT ![p] = EmptySession]
            /\ pc' = [pc EXCEPT ![p] = "fetch"]
            /\ outcome' = [outcome EXCEPT ![p] = "running"]
    /\ UNCHANGED <<remote, store, last_hash, new_hash, content, df, idx,
                   added, updated>>

\* update_lock.acquire(blocking=False), then db = SessionLocal().
Acquire(p) ==
    /\ UNCHANGED carts
    /\ UNCHANGED hist
    /\ pc[p] = "call"
    /\ IF update_lock
       THEN /\ pc' = [pc EXCEPT ![p] = "ret"]
            /\ outcome' = [outcome EXCEPT ![p] = "skipped"]
            /\ UNCHANGED <<update_lock, session>>
       ELSE /\ update_lock' = TRUE
            /\ session' = [session EXCEPT ![p] = EmptySession]
            /\ pc' = [pc EXCEPT ![p] = "fetch"]
            /\ outcome' = [outcome EXCEPT ![p] = "running"]
    /\ UNCHANGED <<remote, store, last_hash, new_hash, content, df, idx,
                   added, updated>>

\* requests.get, the status test, pd.read_excel and fillna.
Fetch(p) ==
    /\ UNCHANGED carts
    /\ UNCHANGED hist
    /\ pc[p] = "fetch"
    /\ IF remote.status = "unreachable"
       THEN /\ pc' = [pc EXCEPT ![p] = "except"]
            /\ UNCHANGED <<content, df, idx, added, updated, outcome>>
       ELSE IF remote.status # "ok"
       THEN /\ pc' = [pc EXCEPT ![p] = "finally"]
            /\ outcome' = [outcome EXCEPT ![p] = "fetch_failed"]
            /\ UNCHANGED <<content, df, idx, added, updated>>
       ELSE /\ content' = [content EXCEPT ![p] = remote.body]
            /\ IF remote.body.decodable
               THEN /\ df' = [df EXCEPT ![p] = remote.body.rows]
                    /\ idx' = [idx EXCEPT ![p] = 1]
                    /\ added' = [added EXCEPT ![p] = 0]
                    /\ updated' = [updated EXCEPT ![p] = 0]
                    /\ pc' = [pc EXCEPT ![p] = "loop"]
               ELSE /\ pc' = [pc EXCEPT ![p] = "except"]
                    /\ UNCHANGED <<df, idx, added, updated>>
            /\ UNCHANGED outcome
    /\ UNCHANGED <<remote, store, update_lock, last_hash, new_hash, session>>

\* One iteration of the loop over df.iterrows().  first() has no ORDER BY:
\* when several rows carry the name, any of them is the one returned.
SeedRow(p) ==
    /\ UNCHANGED carts
    /\ UNCHANGED hist
    /\ pc[p] = "loop"
    /\ idx[p] <= Len(df[p])
    /\ LET row == df[p][idx[p]]
           found == Matching(store, row.name)
       IN IF found # {}
          THEN \E i \in found :
                 LET r == AssignExisting(Object(session[p], store, i), row) IN
                 /\ session' = [session EXCEPT
                                  ![p] = Modify(session[p], store, i, r.obj)]
                 /\ IF r.raised
                    THEN /\ pc' = [pc EXCEPT ![p] = "except"]
                         /\ UNCHANGED <<idx, added, updated>>
                    ELSE /\ updated' = [updated EXCEPT ![p] = @ + 1]
                         /\ idx' = [idx EXCEPT ![p] = @ + 1]
                         /\ UNCHANGED <<pc, added>>
          ELSE IF NewRaises(row)
          THEN /\ pc' = [pc EXCEPT ![p] = "except"]
               /\ UNCHANGED <<session, idx, added, updated>>
          ELSE /\ session' = [session EXCEPT
                                ![p].ins = Append(@, NewProduct(row))]
               /\ added' = [added EXCEPT ![p] = @ + 1]
               /\ idx' = [idx EXCEPT ![p] = @ + 1]
               /\ UNCHANGED <<pc, updated>>
    /\ UNCHANGED <<remote, store, update_lock, last_hash, new_hash, content,
                   df, outcome>>

\* db.commit() after the loop.
SeedCommit(p) ==
    /\ UNCHANGED carts
    /\ UNCHANGED hist
    /\ pc[p] = "loop"
    /\ idx[p] > Len(df[p])
    /\ store' = Committed(store, session[p])
    /\ session' = [session EXCEPT ![p] = EmptySession]
    /\ outcome' = [outcome EXCEPT ![p] = "ok"]
    /\ pc' = [pc EXCEPT ![p] = "finally"]
    /\ UNCHANGED <<remote, update_lock, last_hash, new_hash, content, df,
                   idx, added, updated>>

\* Variant: the handler commits what the loop staged.
SeedExceptCommits(p) ==
    /\ UNCHANGED carts
    /\ UNCHANGED hist
    /\ pc[p] = "except"
    /\ store' = Committed(store, session[p])
    /\ session' = [session EXCEPT ![p] = EmptySession]
    /\ outcome' = [outcome EXCEPT ![p] = "error"]
    /\ pc' = [pc EXCEPT ![p] = "finally"]
    /\ UNCHANGED <<remote, update_lock, last_hash, new_hash, content, df,
                   idx, added, updated>>

\* Variant: the handler rolls back and lets the exception go on, which ends
\* the calling thread once the finally clause has run.
SeedExceptReraises(p) ==
    /\ UNCHANGED carts
    /\ UNCHANGED hist
    /\ pc[p] = "except"
    /\ session' = [session EXCEPT ![p] = EmptySession]
    /\ outcome' = [outcome EXCEPT ![p] = "error"]
    /\ update_lock' = FALSE
    /\ pc' = [pc EXCEPT ![p] = "dead"]
    /\ UNCHANGED <<remote, store, last_hash, new_hash, content, df, idx,
                   added, updated>>

\* except Exception: db.rollback().
SeedExcept(p) ==
    /\ UNCHANGED carts
    /\ UNCHANGED hist
    /\ pc[p] = "except"
    /\ session' = [session EXCEPT ![p] = EmptySession]
    /\ outcome' = [outcome EXCEPT ![p] = "error"]
    /\ pc' = [pc EXCEPT ![p] = "finally"]
    /\ UNCHANGED <<remote, store, update_lock, last_hash, new_hash, content,
                   df, idx, added, updated>>

\* finally: db.close(); update_lock.release(), and the function returns.
SeedFinally(p) ==
    /\ UNCHANGED carts
    /\ UNCHANGED hist
    /\ pc[p] = "finally"
    /\ session' = [session EXCEPT ![p] = EmptySession]
    /\ update_lock' = FALSE
    /\ df' = [df EXCEPT ![p] = <<>>]
    /\ idx' = [idx EXCEPT ![p] = 0]
    /\ pc' = [pc EXCEPT ![p] = "ret"]
    /\ UNCHANGED <<remote, store, last_hash, new_hash, content, added,
                   updated, outcome>>

(***************************************************************************)
(* api_routes.py: admin_upload_excel, run by the request thread.           *)
(***************************************************************************)
\* Variant: the upload is answered without work when the file's digest is
\* the stored one.
UploadBeginIfChanged(d) ==
    /\ UNCHANGED carts
    /\ UNCHANGED hist
    /\ pc[Admin] = "idle"
    /\ content' = [content EXCEPT ![Admin] = d]
    /\ IF ~HasChanged(Md5(d), last_hash)
       THEN /\ pc' = [pc EXCEPT ![Admin] = "ret"]
            /\ UNCHANGED <<df, idx>>
       ELSE IF d.decodable
       THEN /\ df' = [df EXCEPT ![Admin] = d.rows]
            /\ idx' = [idx EXCEPT ![Admin] = 1]
            /\ pc' = [pc EXCEPT ![Admin] = "loop"]
       ELSE /\ pc' = [pc EXCEPT ![Admin] = "except"]
            /\ UNCHANGED <<df, idx>>
    /\ session' = [session EXCEPT ![Admin] = EmptySession]
    /\ added' = [added EXCEPT ![Admin] = 0]
    /\ updated' = [updated EXCEPT ![Admin] = 0]
    /\ outcome' = [outcome EXCEPT ![Admin] = "running"]
    /\ UNCHANGED <<remote, store, update_lock, last_hash, new_hash>>

\* The request arrives with an uploaded file: file.read(), pd.read_excel,
\* fillna.  db is the request's session from get_db.
UploadBegin(d) ==
    /\ UNCHANGED carts
    /\ UNCHANGED hist
    /\ pc[Admin] = "idle"
    /\ content' = [content EXCEPT ![Admin] = d]
    /\ IF d.decodable
       THEN /\ df' = [df EXCEPT ![Admin] = d.rows]
            /\ idx' = [idx EXCEPT ![Admin] = 1]
            /\ pc' = [pc EXCEPT ![Admin] = "loop"]
       ELSE /\ pc' = [pc EXCEPT ![Admin] = "except"]
            /\ UNCHANGED <<df, idx>>
    /\ session' = [session EXCEPT ![Admin] = EmptySession]
    /\ added' = [added EXCEPT ![Admin] = 0]
    /\ updated' = [updated EXCEPT ![Admin] = 0]
    /\ outcome' = [outcome EXCEPT ![Admin] = "running"]
    /\ UNCHANGED <<remote, store, update_lock, last_hash, new_hash>>

\* One iteration of the loop over df.iterrows().
UploadRow ==
    /\ UNCHANGED carts
    /\ UNCHANGED hist
    /\ pc[Admin] = "loop"
    /\ idx[Admin] <= Len(df[Admin])
    /\ LET row == df[Admin][idx[Admin]]
           found == Matching(store, row.name)
       IN IF found # {}
          THEN \E i \in found :
                 LET r == AssignExisting(Object(session[Admin], store, i), row)
                 IN
                 /\ session' = [session EXCEPT
                        ![Admin] = Modify(session[Admin], store, i, r.obj)]
                 /\ IF r.raised
                    THEN /\ pc' = [pc EXCEPT ![Admin] = "except"]
                         /\ UNCHANGED <<idx, added, updated>>
                    ELSE /\ updated' = [updated EXCEPT ![Admin] = @ + 1]
                         /\ idx' = [idx EXCEPT ![Admin] = @ + 1]
                         /\ UNCHANGED <<pc, added>>
          ELSE IF NewRaises(row)
          THEN /\ pc' = [pc EXCEPT ![Admin] = "except"]
               /\ UNCHANGED <<session, idx, added, updated>>
          ELSE /\ session' = [session EXCEPT
                                ![Admin].ins = Append(@, NewProduct(row))]
               /\ added' = [added EXCEPT ![Admin] = @ + 1]
               /\ idx' = [idx EXCEPT ![Admin] = @ + 1]
               /\ UNCHANGED <<pc, updated>>
    /\ UNCHANGED <<remote, store, update_lock, last_hash, new_hash, content,
                   df, outcome>>

\* db.commit() and the success response with the two counts.
UploadCommit ==
    /\ UNCHANGED carts
    /\ UNCHANGED hist
    /\ pc[Admin] = "loop"
    /\ idx[Admin] > Len(df[Admin])
    /\ store' = Committed(store, session[Admin])
    /\ session' = [session EXCEPT ![Admin] = EmptySession]
    /\ outcome' = [outcome EXCEPT ![Admin] = "ok"]
    /\ pc' = [pc EXCEPT ![Admin] = "ret"]
    /\ UNCHANGED <<remote, update_lock, last_hash, new_hash, content, df,
                   idx, added, updated>>

\* Variant: the handler commits what the session holds before it answers.
UploadExceptCommits ==
    /\ UNCHANGED carts
    /\ UNCHANGED hist
    /\ pc[Admin] = "except"
    /\ store' = Committed(store, session[Admin])
    /\ session' = [session EXCEPT ![Admin] = EmptySession]
    /\ outcome' = [outcome EXCEPT ![Admin] = "error"]
    /\ pc' = [pc EXCEPT ![Admin] = "ret"]
    /\ UNCHANGED <<remote, update_lock, last_hash, new_hash, content, df,
                   idx, added, updated>>

\* except Exception: db.rollback(), raise HTTPException(500).
UploadExcept ==
    /\ UNCHANGED carts
    /\ UNCHANGED hist
    /\ pc[Admin] = "except"
    /\ session' = [session EXCEPT ![Admin] = EmptySession]
    /\ outcome' = [outcome EXCEPT ![Admin] = "error"]
    /\ pc' = [pc EXCEPT ![Admin] = "ret"]
    /\ UNCHANGED <<remote, store, update_lock, last_hash, new_hash, content,
                   df, idx, added, updated>>

\* The response is sent and get_db closes the session.
UploadReturns ==
    /\ UNCHANGED carts
    /\ pc[Admin] = "ret"
    /\ pc' = [pc EXCEPT ![Admin] = "idle"]
    /\ df' = [df EXCEPT ![Admin] = <<>>]
    /\ idx' = [idx EXCEPT ![Admin] = 0]
    /\ Forget(Admin)
    /\ UNCHANGED <<remote, store, update_lock, last_hash, new_hash, session>>

UploadRespond ==
    /\ UploadReturns
    /\ UNCHANGED hist

(***************************************************************************)
(* The running system: the watcher thread polls the sheet while the admin  *)
(* uploads workbooks, and the sheet changes under both.                    *)
(***************************************************************************)
Next ==
    \/ SheetEdited
    \/ StatusChanged
    \/ WatcherTick
    \/ WatcherStore
    \/ Acquire(Watcher)
    \/ Fetch(Watcher)
    \/ SeedRow(Watcher)
    \/ SeedCommit(Watcher)
    \/ SeedExcept(Watcher)
    \/ SeedFinally(Watcher)
    \/ \E d \in UploadDocs : UploadBegin(d)
    \/ UploadRow
    \/ UploadCommit
    \/ UploadExcept
    \/ UploadRespond

Spec == Init /\ [][Next]_vars

(***************************************************************************)
(* The watcher thread and a second thread that calls run_seeding.          *)
(***************************************************************************)
NextTrigger ==
    \/ SheetEdited
    \/ StatusChanged
    \/ WatcherTick
    \/ WatcherStore
    \/ TriggerInvoke
    \/ TriggerReturn
    \/ \E p \in SyncProcs : Acquire(p)
    \/ \E p \in SyncProcs : Fetch(p)
    \/ \E p \in SyncProcs : SeedRow(p)
    \/ \E p \in SyncProcs : SeedCommit(p)
    \/ \E p \in SyncProcs : SeedExcept(p)
    \/ \E p \in SyncProcs : SeedFinally(p)

SpecTrigger == Init /\ [][NextTrigger]_vars

\* The watcher is a thread of its own: whenever it can take a step it
\* eventually takes one.
WatcherNext ==
    \/ WatcherTick
    \/ WatcherStore
    \/ Acquire(Watcher)
    \/ Fetch(Watcher)
    \/ SeedRow(Watcher)
    \/ SeedCommit(Watcher)
    \/ SeedExcept(Watcher)
    \/ SeedFinally(Watcher)

SpecTriggerLive == SpecTrigger /\ WF_vars(WatcherNext)

(***************************************************************************)
(* The same two threads when opening the session can fail.  run_seeding    *)
(* takes the lock, then calls SessionLocal(), and only then enters its     *)
(* try statement.                                                          *)
(***************************************************************************)
\* update_lock.acquire(blocking=False) succeeds and db = SessionLocal()
\* raises: no try statement is entered yet, so neither the except nor the
\* finally clause runs and the exception leaves run_seeding and ends the
\* caller.
SessionFails(p) ==
    /\ UNCHANGED carts
    /\ UNCHANGED hist
    /\ pc[p] = "call"
    /\ ~update_lock
    /\ update_lock' = TRUE
    /\ outcome' = [outcome EXCEPT ![p] = "raised"]
    /\ pc' = [pc EXCEPT ![p] = "raised"]
    /\ UNCHANGED <<remote, store, last_hash, new_hash, content, df, idx,
                   session, added, updated>>

NextSession ==
    \/ NextTrigger
    \/ \E p \in SyncProcs : SessionFails(p)

SpecSession == Init /\ [][NextSession]_vars

(***************************************************************************)
(* Reconciliation on its own: the same workbook is uploaded MaxCalls       *)
(* times in a row to an empty table, and each answer is recorded.          *)
(***************************************************************************)
ReconcileBegin ==
    /\ Len(log) < MaxCalls
    /\ \E d \in Documents :
         /\ log # <<>> => d = log[1].doc
         /\ UploadBegin(d)

ReconcileRespond ==
    /\ UploadReturns
    /\ log' = Append(log, [doc |-> content[Admin], outcome |-> outcome[Admin],
                           added |-> added[Admin], updated |-> updated[Admin],
                           after |-> store])
    /\ UNCHANGED prev

NextReconcile ==
    \/ ReconcileBegin
    \/ UploadRow
    \/ UploadCommit
    \/ UploadExcept
    \/ ReconcileRespond

SpecReconcile == Init /\ [][NextReconcile]_vars

(***************************************************************************)
(* Runs made one at a time: the table starts as an earlier reconciliation  *)
(* of some workbook left it, the sheet holds one workbook, the watcher     *)
(* syncs it and the admin uploads the same workbook once, never both at    *)
(* once.  log starts with the initial table and gets one entry per         *)
(* finished run, so run k started from log[k].after and is recorded in     *)
(* log[k + 1].                                                             *)
(***************************************************************************)
Stores ==
    {[k \in 1..Len(rs) |-> NewProduct(rs[k])] : rs \in SeqsUpTo(GoodRows, MaxRows)}

Entry(by, p) ==
    [by |-> by, doc |-> content[p], outcome |-> outcome[p],
     added |-> added[p], updated |-> updated[p], after |-> store]

InitSerial ==
    /\ remote \in [status : {"ok"}, body : Documents]
    /\ store \in Stores
    /\ update_lock = FALSE
    /\ last_hash = NoHash
    /\ new_hash = NoHash
    /\ pc = [p \in Procs |-> IF p = Watcher THEN "sleep" ELSE "idle"]
    /\ content = [p \in Procs |-> Garbage]
    /\ df = [p \in Procs |-> <<>>]
    /\ idx = [p \in Procs |-> 0]
    /\ session = [p \in Procs |-> EmptySession]
    /\ added = [p \in Procs |-> 0]
    /\ updated = [p \in Procs |-> 0]
    /\ outcome = [p \in Procs |-> "none"]
    /\ prev = [result |-> "none", hash |-> NoHash]
    /\ log = <<Entry("start", Admin)>>
    /\ cart = <<>>
    /\ cart_result = NoCall

SerialTick ==
    /\ pc[Admin] = "idle"
    /\ WatcherTick

SerialStore ==
    /\ WatcherReturns
    /\ log' = Append(log, Entry("sync", Watcher))

SerialUpload ==
    /\ pc[Watcher] = "sleep"
    /\ \A k \in 1..Len(log) : log[k].by # "upload"
    /\ UploadBegin(remote.body)

SerialRespond ==
    /\ UploadReturns
    /\ log' = Append(log, Entry("upload", Admin))
    /\ UNCHANGED prev

NextSerial ==
    \/ SerialTick
    \/ SerialStore
    \/ Acquire(Watcher)
    \/ Fetch(Watcher)
    \/ SeedRow(Watcher)
    \/ SeedCommit(Watcher)
    \/ SeedExcept(Watcher)
    \/ SeedFinally(Watcher)
    \/ SerialUpload
    \/ UploadRow
    \/ UploadCommit
    \/ UploadExcept
    \/ SerialRespond

SpecSerial == InitSerial /\ [][NextSerial]_vars

(***************************************************************************)
(* Side by side: the table starts as an earlier reconciliation left it,    *)
(* the watcher syncs the sheet's workbook and the admin uploads the same   *)
(* workbook once, in any interleaving.  log is kept as in the serial runs, *)
(* so as long as Len(log) = 1 the table is the one both started from.      *)
(***************************************************************************)
PairUpload ==
    /\ \A k \in 1..Len(log) : log[k].by # "upload"
    /\ UploadBegin(remote.body)

NextPair ==
    \/ WatcherTick
    \/ SerialStore
    \/ Acquire(Watcher)
    \/ Fetch(Watcher)
    \/ SeedRow(Watcher)
    \/ SeedCommit(Watcher)
    \/ SeedExcept(Watcher)
    \/ SeedFinally(Watcher)
    \/ PairUpload
    \/ UploadRow
    \/ UploadCommit
    \/ UploadExcept
    \/ SerialRespond

SpecPair == InitSerial /\ [][NextPair]_vars

(***************************************************************************)
(* api_routes.py: admin_download_excel, and the admin who downloads the    *)
(* table and uploads workbooks, among them the ones downloaded.            *)
(***************************************************************************)
\* The functions crud.py defines.
CrudFunctions ==
    {"get_user_by_email", "get_user_by_firebase_uid",
     "create_user_from_firebase", "update_user_profile",
     "get_all_users_for_admin", "verify_wholesaler", "get_products",
     "get_product_by_id", "get_cart_items", "add_item_to_cart",
     "update_cart_item_quantity", "remove_item_from_cart", "clear_user_cart",
     "get_wishlist_items", "add_item_to_wishlist",
     "remove_item_from_wishlist", "get_coupon_by_code", "get_orders_by_user",
     "create_order", "get_reviews_for_product", "create_review"}

\* A string cell as pd.read_excel and fillna('') give it back: the strings
\* pandas takes for NA by default come back as ''.
NaStrings == {"", "NA", "N/A", "NULL", "NaN", "None", "n/a", "nan", "null"}
ReadString(x) == IF x \in NaStrings THEN "" ELSE x

\* df.to_excel of the products, read back: a number stays a number cell.
ToExcel(tbl) ==
    Table([k \in 1..Len(tbl) |->
             [name |-> ReadString(tbl[k].name),
              description |-> ReadString(tbl[k].description),
              original_price |-> Num(tbl[k].original_price),
              image_url |-> ReadString(tbl[k].image_url),
              stock |-> Num(tbl[k].stock),
              retail_price |-> Num(tbl[k].retail_price),
              wholesaler_price |-> Num(tbl[k].wholesaler_price)]])

\* The whole handler: a call of a function that crud.py does not define
\* raises AttributeError inside the try, and the except clause answers 500.
Download ==
    /\ UNCHANGED carts
    /\ pc[Admin] = "idle"
    /\ Len(log) <= MaxCalls
    /\ IF "get_all_products_for_excel" \in CrudFunctions
       THEN /\ content' = [content EXCEPT ![Admin] = ToExcel(store)]
            /\ outcome' = [outcome EXCEPT ![Admin] = "ok"]
       ELSE /\ content' = [content EXCEPT ![Admin] = Garbage]
            /\ outcome' = [outcome EXCEPT ![Admin] = "error"]
    /\ pc' = [pc EXCEPT ![Admin] = "downloaded"]
    /\ UNCHANGED <<remote, store, update_lock, last_hash, new_hash, df, idx,
                   session, added, updated, prev, log>>

DownloadRespond ==
    /\ UNCHANGED carts
    /\ pc[Admin] = "downloaded"
    /\ log' = Append(log, Entry("download", Admin))
    /\ pc' = [pc EXCEPT ![Admin] = "idle"]
    /\ Forget(Admin)
    /\ UNCHANGED <<remote, store, update_lock, last_hash, new_hash, df, idx,
                   session, prev>>

\* The workbooks the admin has got from a download so far.
Downloaded ==
    {log[k].doc : k \in {j \in 1..Len(log) :
                            log[j].by = "download" /\ log[j].outcome = "ok"}}

DownloadUpload ==
    /\ Len(log) <= MaxCalls
    /\ \E d \in UploadDocs \cup Downloaded : UploadBegin(d)

NextDownload ==
    \/ Download
    \/ DownloadRespond
    \/ DownloadUpload
    \/ UploadRow
    \/ UploadCommit
    \/ UploadExcept
    \/ SerialRespond

\* The sheet plays no part here.
InitDownload ==
    /\ InitSerial
    /\ remote.body = Garbage

SpecDownload == InitDownload /\ [][NextDownload]_vars

(***************************************************************************)
(* main.py: the process starts.  The main thread (here the thread Trigger) *)
(* runs startup_event and the application then serves uploads.  log        *)
(* records what the two try blocks of startup_event did.                   *)
(***************************************************************************)
\* The names the two modules define at top level.
ExcelUpdaterNames ==
    {"pd", "requests", "BytesIO", "threading", "SessionLocal", "Product",
     "EXCEL_URL", "update_lock", "run_seeding"}

FileWatcherNames ==
    {"time", "threading", "hashlib", "requests", "run_seeding", "EXCEL_URL",
     "CHECK_INTERVAL", "_last_hash", "get_file_hash", "watch_google_sheet",
     "start_watcher_in_thread"}

InitStartup ==
    /\ remote = [status |-> "ok", body |-> Garbage]
    /\ store = <<>>
    /\ update_lock = FALSE
    /\ last_hash = NoHash
    /\ new_hash = NoHash
    /\ pc = [p \in Procs |-> IF p = Watcher THEN "unstarted"
                             ELSE IF p = Trigger THEN "boot" ELSE "idle"]
    /\ content = [p \in Procs |-> Garbage]
    /\ df = [p \in Procs |-> <<>>]
    /\ idx = [p \in Procs |-> 0]
    /\ session = [p \in Procs |-> EmptySession]
    /\ added = [p \in Procs |-> 0]
    /\ updated = [p \in Procs |-> 0]
    /\ outcome = [p \in Procs |-> "none"]
    /\ prev = [result |-> "none", hash |-> NoHash]
    /\ log = <<>>
    /\ cart = <<>>
    /\ cart_result = NoCall

\* try: excel_updater.sync_excel_with_database()  except Exception: print.
\* Looking up a name the module does not define raises AttributeError,
\* which the except clause takes.
StartupSync ==
    /\ UNCHANGED carts
    /\ pc[Trigger] = "boot"
    /\ IF "sync_excel_with_database" \in ExcelUpdaterNames
       THEN /\ pc' = [pc EXCEPT ![Trigger] = "call"]
            /\ log' = Append(log, "sync called")
       ELSE /\ pc' = [pc EXCEPT ![Trigger] = "start_watcher"]
            /\ log' = Append(log, "sync failed")
    /\ UNCHANGED <<remote, store, update_lock, last_hash, new_hash, content,
                   df, idx, session, added, updated, outcome, prev>>

\* try: file_watcher.start_watcher()  except Exception: print.
StartupWatcher ==
    /\ UNCHANGED carts
    /\ pc[Trigger] = "start_watcher"
    /\ IF "start_watcher" \in FileWatcherNames
       THEN /\ pc' = [pc EXCEPT ![Trigger] = "serving", ![Watcher] = "sleep"]
            /\ log' = Append(log, "watcher started")
       ELSE /\ pc' = [pc EXCEPT ![Trigger] = "serving"]
            /\ log' = Append(log, "watcher failed")
    /\ UNCHANGED <<remote, store, update_lock, last_hash, new_hash, content,
                   df, idx, session, added, updated, outcome, prev>>

\* Requests are served once startup_event has returned.
StartupUpload ==
    /\ pc[Trigger] = "serving"
    /\ \E d \in UploadDocs : UploadBegin(d)

NextStartup ==
    \/ StartupSync
    \/ StartupWatcher
    \/ SheetEdited
    \/ StatusChanged
    \/ StartupUpload
    \/ UploadRow
    \/ UploadCommit
    \/ UploadExcept
    \/ UploadRespond

SpecStartup == InitStartup /\ [][NextStartup]_vars

(***************************************************************************)
(* crud.py: the cart.  Every call runs in the session of its request and   *)
(* commits before it returns; the calls are made one at a time.  A row of  *)
(* cart_items is kept as its owner, its product and its quantity; the      *)
(* quantity column is an Integer, whose largest value MaxQty stands for.   *)
(***************************************************************************)
CartUsers == {"u1", "u2"}
CartProducts == {1, 2}
Amounts == (0 - MaxQty)..MaxQty

CartItem(u, pid, q) == [owner_id |-> u, product_id |-> pid, quantity |-> q]

\* filter(CartItem.owner_id == user_id, CartItem.product_id == product_id)
CartMatching(tbl, u, pid) ==
    {i \in 1..Len(tbl) : tbl[i].owner_id = u /\ tbl[i].product_id = pid}

\* db.delete(db_item)
Delete(tbl, i) == SubSeq(tbl, 1, i - 1) \o SubSeq(tbl, i + 1, Len(tbl))

Call(op, u, pid, amount, value) ==
    [op |-> op, user |-> u, product |-> pid, amount |-> amount,
     value |-> value, before |-> cart]

\* The commit of a quantity: one that the column cannot hold is refused
\* by the database, the exception leaves the call and nothing is written.
StoreQuantity(op, u, pid, amount, i, q) ==
    IF q > MaxQty
    THEN /\ cart' = cart
         /\ cart_result' = Call(op, u, pid, amount, <<"error">>)
    ELSE /\ cart' = [cart EXCEPT ![i].quantity = q]
         /\ cart_result' = Call(op, u, pid, amount, <<"item", q>>)

add_item_to_cart(u, pid) ==
    /\ LET found == CartMatching(cart, u, pid) IN
       IF found # {}
       THEN \E i \in found :
              StoreQuantity("add", u, pid, 0, i, cart[i].quantity + 1)
       ELSE /\ cart' = Append(cart, CartItem(u, pid, 1))
            /\ cart_result' = Call("add", u, pid, 0, <<"item", 1>>)
    /\ UNCHANGED <<remote, store, update_lock, last_hash, new_hash, pc,
                   content, df, idx, session, added, updated, outcome, hist>>

\* Variant: the item is deleted only when its quantity falls below zero.
UpdateKeepsZero(u, pid, amount) ==
    /\ LET found == CartMatching(cart, u, pid) IN
       IF found = {}
       THEN /\ cart' = cart
            /\ cart_result' = Call("update", u, pid, amount, None)
       ELSE \E i \in found :
              LET q == cart[i].quantity + amount IN
              IF q < 0
              THEN /\ cart' = Delete(cart, i)
                   /\ cart_result' = Call("update", u, pid, amount, None)
              ELSE StoreQuantity("update", u, pid, amount, i, q)
    /\ UNCHANGED <<remote, store, update_lock, last_hash, new_hash, pc,
                   content, df, idx, session, added, updated, outcome, hist>>

update_cart_item_quantity(u, pid, amount) ==
    /\ LET found == CartMatching(cart, u, pid) IN
       IF found = {}
       THEN /\ cart' = cart
            /\ cart_result' = Call("update", u, pid, amount, None)
       ELSE \E i \in found :
              LET q == cart[i].quantity + amount IN
              IF q <= 0
              THEN /\ cart' = Delete(cart, i)
                   /\ cart_result' = Call("update", u, pid, amount, None)
              ELSE StoreQuantity("update", u, pid, amount, i, q)
    /\ UNCHANGED <<remote, store, update_lock, last_hash, new_hash, pc,
                   content, df, idx, session, added, updated, outcome, hist>>

remove_item_from_cart(u, pid) ==
    /\ LET found == CartMatching(cart, u, pid) IN
       IF found # {}
       THEN \E i \in found :
              /\ cart' = Delete(cart, i)
              /\ cart_result' = Call("remove", u, pid, 0, <<"True">>)
       ELSE /\ cart' = cart
            /\ cart_result' = Call("remove", u, pid, 0, <<"False">>)
    /\ UNCHANGED <<remote, store, update_lock, last_hash, new_hash, pc,
                   content, df, idx, session, added, updated, outcome, hist>>

NextCart ==
    \/ \E u \in CartUsers, pid \in CartProducts : add_item_to_cart(u, pid)
    \/ \E u \in CartUsers, pid \in CartProducts, amount \in Amounts :
           update_cart_item_quantity(u, pid, amount)
    \/ \E u \in CartUsers, pid \in CartProducts :
           remove_item_from_cart(u, pid)

\* The cart is empty and the sheet plays no part.
InitCart ==
    /\ Init
    /\ remote.body = Garbage

SpecCart == InitCart /\ [][NextCart]_vars

(***************************************************************************)
(* Properties.                                                             *)
(***************************************************************************)
\* Thread p is inside run_seeding with the lock taken and a session open.
InRun(p) == pc[p] \in {"fetch", "loop", "except", "finally"}

\* Thread p takes a step of its own.
Moves(p) == pc'[p] # pc[p] \/ idx'[p] # idx[p]

DistinctNames(rows) ==
    \A j, k \in 1..Len(rows) : rows[j].name = rows[k].name => j = k

AllCoercible(rows) == \A k \in 1..Len(rows) : ~NewRaises(rows[k])

\* C1: of two overlapping calls of run_seeding exactly one runs and the
\* other is skipped at once; two calls never hold a session on the table at
\* the same time.
C1_OneRunAtATime ==
    [][/\ \A p, q \in SyncProcs : p # q => ~(InRun(p)' /\ InRun(q)')
       /\ \A p \in SyncProcs :
            (pc[p] = "call" /\ pc'[p] # "call") =>
                IF \E q \in SyncProcs \ {p} : InRun(q)
                THEN /\ pc'[p] = "ret"
                     /\ outcome'[p] = "skipped"
                     /\ \E q \in SyncProcs \ {p} : InRun(q)'
                ELSE InRun(p)']_vars

C1_Witness ==
    /\ InRun(Watcher)
    /\ pc[Trigger] = "ret"
    /\ outcome[Trigger] = "skipped"

\* C2: no two rows of the products table carry the same name, whatever
\* workbooks were reconciled, including one with a new name in two rows.
C2_UniqueNames ==
    \A i, j \in 1..Len(store) : store[i].name = store[j].name => i = j

\* C3: a sync run over a sheet in which some row has a price or stock that
\* cannot be coerced writes nothing to the table, whatever rows came before
\* that row, and ends in the error handler.
C3_BadRowWritesNothing ==
    [][\A p \in SyncProcs :
          (InRun(p) /\ ~AllCoercible(df[p]) /\ Moves(p)) =>
              /\ store' = store
              /\ pc'[p] = "finally" => outcome'[p] = "error"]_vars

C3_Witness ==
    /\ pc[Watcher] = "finally"
    /\ outcome[Watcher] = "error"
    /\ idx[Watcher] = 2
    /\ ~NewRaises(df[Watcher][1])
    /\ NewRaises(df[Watcher][2])

\* C4: the scheduled sync and the upload never run their lookup / insert /
\* update loop on the table at the same time.
C4_LoopsExclusive ==
    ~(\E p \in SyncProcs : pc[p] = "loop" /\ pc[Admin] = "loop")

\* C5: when the watcher's run fails (fetch, parse or coercion), the stored
\* digest after the tick is the digest stored before it.
C5_DigestKeptOnFailure ==
    [][(/\ pc[Watcher] = "ret"
        /\ pc'[Watcher] = "sleep"
        /\ outcome[Watcher] \in {"fetch_failed", "error"})
       => last_hash' = last_hash]_vars

\* C6: after a failed run, while the sheet still is the workbook that run
\* was started for, the next tick takes it as changed and runs again.
C6_FailedRunRetried ==
    (/\ pc[Watcher] = "sleep"
     /\ prev.result \in {"fetch_failed", "error"}
     /\ GetFileHash(remote) = prev.hash)
    => HasChanged(GetFileHash(remote), last_hash)

\* C7: after a run succeeded on a workbook, a tick that finds the sheet
\* byte-identical to that workbook does not start a reconciliation.
C7_SameWorkbookNotRerun ==
    (/\ pc[Watcher] = "sleep"
     /\ prev.result = "ok"
     /\ GetFileHash(remote) = prev.hash)
    => ~HasChanged(GetFileHash(remote), last_hash)

\* C8: a tick that observes a workbook whose digest differs from the one
\* the previous tick observed calls run_seeding, and so does a tick that
\* observes a workbook while no digest is stored.
C8_ChangeAlwaysRuns ==
    [][(/\ pc[Watcher] = "sleep"
        /\ new_hash' # new_hash
        /\ new_hash' # NoHash
        /\ new_hash # NoHash \/ last_hash = NoHash)
       => pc'[Watcher] = "call"]_vars

C8_Witness ==
    /\ pc[Watcher] = "call"
    /\ last_hash # NoHash
    /\ new_hash # last_hash

\* C9: an upload reconciles its workbook whatever digest is stored, also
\* when the workbook is the one the watcher processed last, and no step of
\* it changes the stored digest.
C9_UploadIgnoresDigest ==
    [][Moves(Admin) =>
          /\ last_hash' = last_hash
          /\ new_hash' = new_hash
          /\ (pc'[Admin] = "ret" /\ content'[Admin].decodable
                  /\ AllCoercible(content'[Admin].rows)) =>
                 /\ outcome'[Admin] = "ok"
                 /\ added'[Admin] + updated'[Admin]
                        = Len(content'[Admin].rows)]_vars

C9_Witness ==
    /\ pc[Admin] = "ret"
    /\ outcome[Admin] = "ok"
    /\ last_hash = Md5(content[Admin])
    /\ updated[Admin] = Len(content[Admin].rows)
    /\ updated[Admin] > 0

\* C10 as stated: for every record set of N records, two reconciliations
\* in a row from an empty table give added = N, updated = 0 and then
\* added = 0, updated = N, with the same table after both.
Idempotent(l) ==
    LET n == Len(l[1].doc.rows) IN
    /\ l[1].outcome = "ok" /\ l[1].added = n /\ l[1].updated = 0
    /\ l[2].outcome = "ok" /\ l[2].added = 0 /\ l[2].updated = n
    /\ l[2].after = l[1].after

C10_AnyRecordSet ==
    (Len(log) >= 2 /\ log[1].doc.decodable) => Idempotent(log)

\* C10 amended: the same for every record set whose names are pairwise
\* distinct and whose numeric cells all coerce.
C10_DistinctCoercible ==
    (/\ Len(log) >= 2
     /\ log[1].doc.decodable
     /\ DistinctNames(log[1].doc.rows)
     /\ AllCoercible(log[1].doc.rows))
    => Idempotent(log)

C10_Witness ==
    /\ Len(log) >= 2
    /\ log[1].doc.decodable
    /\ Len(log[1].doc.rows) >= 2
    /\ DistinctNames(log[1].doc.rows)
    /\ AllCoercible(log[1].doc.rows)
    /\ log[2].updated = Len(log[1].doc.rows)

\* C11: no step of any run, successful, failed or skipped, removes a
\* product: the names in the table afterwards include the names before,
\* also the names the workbook does not mention.
NamesOf(tbl) == {tbl[i].name : i \in 1..Len(tbl)}

C11_NothingRemoved ==
    [][NamesOf(store) \subseteq NamesOf(store')
       /\ Len(store') >= Len(store)]_vars

C11_Witness ==
    \E k \in 2..Len(log) :
        /\ log[k].by = "sync"
        /\ log[k].outcome = "ok"
        /\ log[k].doc.rows # <<>>
        /\ \E n \in NamesOf(log[k - 1].after) :
              /\ n \notin NamesOf(log[k].doc.rows)
              /\ n \in NamesOf(log[k].after)

C13_StartupSyncThenPolling ==
    pc[Trigger] = "serving" =>
        /\ \E k \in 1..Len(log) : log[k] = "sync called"
        /\ pc[Watcher] # "unstarted"

\* C14: an upload of a workbook that cannot be decoded, lacks a column or
\* has a row with a cell that does not coerce is answered with an error,
\* and the table after it is the table before it.
Fails(d) == ~d.decodable \/ \E k \in 1..Len(d.rows) : NewRaises(d.rows[k])

C14_FailedUploadChangesNothing ==
    \A k \in 2..Len(log) :
        (log[k].by = "upload" /\ Fails(log[k].doc)) =>
            /\ log[k].outcome = "error"
            /\ log[k].after = log[k - 1].after

C14_Witness ==
    \E k \in 2..Len(log) :
        /\ log[k].by = "upload"
        /\ log[k].outcome = "error"
        /\ Fails(log[k].doc)
        /\ log[k].updated > 0

\* C15: from the same table and the same workbook, the sync and the upload
\* fail together or succeed together, and when they succeed they are about
\* to commit the same table and have counted the same added and updated.
LoopDone(p) == pc[p] = "loop" /\ idx[p] > Len(df[p])
Raised(p) == pc[p] = "except"

C15_UploadEqualsSync ==
    (/\ Len(log) = 1
     /\ LoopDone(Watcher) \/ Raised(Watcher)
     /\ LoopDone(Admin) \/ Raised(Admin)) =>
        /\ Raised(Watcher) <=> Raised(Admin)
        /\ LoopDone(Watcher) =>
              /\ Committed(store, session[Watcher])
                    = Committed(store, session[Admin])
              /\ added[Watcher] = added[Admin]
              /\ updated[Watcher] = updated[Admin]

\* C16: a download from a table with unique names answers with a workbook,
\* and an upload of that workbook to the same table adds nothing, updates
\* every product and leaves the table as it was.
C16_RoundTrip ==
    \A k \in 2..Len(log) :
        (log[k].by = "download" /\ DistinctNames(log[k - 1].after)) =>
            /\ log[k].outcome = "ok"
            /\ (k < Len(log) /\ log[k + 1].by = "upload"
                 /\ log[k + 1].doc = log[k].doc) =>
                   /\ log[k + 1].outcome = "ok"
                   /\ log[k + 1].added = 0
                   /\ log[k + 1].updated = Len(log[k].after)
                   /\ log[k + 1].after = log[k].after

\* C17: a call of run_seeding that finds the lock held returns with its
\* next step: it fetches nothing, opens no session, leaves the table alone
\* and leaves the lock with the run that holds it, and so does its return.
Skipped(p) == pc[p] = "ret" /\ outcome[p] = "skipped"

C17_SkippedCallDoesNothing ==
    [][\A p \in SyncProcs :
         /\ (pc[p] = "call" /\ update_lock /\ Moves(p)) =>
               /\ Skipped(p)'
               /\ content'[p] = content[p] /\ content[p] = Garbage
               /\ session'[p] = session[p] /\ session[p] = EmptySession
               /\ df'[p] = df[p] /\ df[p] = <<>>
               /\ store' = store
               /\ update_lock'
               /\ \E q \in SyncProcs \ {p} : InRun(q) /\ InRun(q)'
         /\ (Skipped(p) /\ Moves(p)) =>
               /\ store' = store
               /\ update_lock' = update_lock
               /\ \A q \in SyncProcs \ {p} : InRun(q) => InRun(q)']_vars

C17_Witness ==
    /\ pc[Watcher] = "sleep"
    /\ prev.result = "skipped"
    /\ InRun(Trigger)
    /\ update_lock

\* C18: a run that succeeds on a workbook whose names are pairwise distinct
\* overwrites, for each row whose name is in the table, the six columns of
\* one product of that name with the row's coerced values, appends for each
\* other row one product made of the row's coerced values, leaves the
\* products of other names as they were, and counts the first kind as
\* updated and the second as added.
Known(tbl, rows) == {k \in 1..Len(rows) : Matching(tbl, rows[k].name) # {}}
New(tbl, rows) == {k \in 1..Len(rows) : Matching(tbl, rows[k].name) = {}}

ReconciledAsStated(before, rows, e) ==
    /\ Len(e.after) = Len(before) + Cardinality(New(before, rows))
    /\ \A k \in Known(before, rows) :
          /\ \E i \in Matching(before, rows[k].name) :
                e.after[i] = NewProduct(rows[k])
          /\ Cardinality(Matching(e.after, rows[k].name))
                = Cardinality(Matching(before, rows[k].name))
    /\ \A k \in New(before, rows) :
          \E i \in (Len(before) + 1)..Len(e.after) :
              /\ Matching(e.after, rows[k].name) = {i}
              /\ e.after[i] = NewProduct(rows[k])
    /\ \A i \in 1..Len(before) :
          before[i].name \notin NamesOf(rows) => e.after[i] = before[i]
    /\ e.updated = Cardinality(Known(before, rows))
    /\ e.added = Cardinality(New(before, rows))
    /\ e.added + e.updated = Len(rows)

C18_ReconcileDistinctNames ==
    \A k \in 2..Len(log) :
        (log[k].outcome = "ok" /\ DistinctNames(log[k].doc.rows)) =>
            ReconciledAsStated(log[k - 1].after, log[k].doc.rows, log[k])

C18_Witness ==
    \E k \in 2..Len(log) :
        /\ log[k].by = "sync"
        /\ log[k].outcome = "ok"
        /\ DistinctNames(log[k].doc.rows)
        /\ log[k].added = 1
        /\ log[k].updated = 1
        /\ \E i \in 1..Len(log[k - 1].after) :
              /\ log[k].after[i].image_url # log[k - 1].after[i].image_url
              /\ log[k].after[i].stock # log[k - 1].after[i].stock

\* C19: after a run that succeeds on a workbook with a name in several
\* rows, every product of that name carries the coerced values of the last
\* of these rows, whether the name was in the table before or not.
RowsOf(rows, n) == {k \in 1..Len(rows) : rows[k].name = n}
LastRow(rows, n) == rows[CHOOSE k \in RowsOf(rows, n) :
                             \A j \in RowsOf(rows, n) : j <= k]

C19_LastRowWins ==
    \A k \in 2..Len(log) :
        log[k].outcome = "ok" =>
            \A n \in NamesOf(log[k].doc.rows) :
                Cardinality(RowsOf(log[k].doc.rows, n)) > 1 =>
                    \A i \in Matching(log[k].after, n) :
                        log[k].after[i] = NewProduct(LastRow(log[k].doc.rows, n))

\* C20: _last_hash changes only in a step the watcher takes inside its run,
\* with update_lock held by that run.
C20_DigestWrittenUnderLock ==
    [][last_hash' # last_hash => (update_lock /\ InRun(Watcher))]_vars

\* C21: every value written to _last_hash is the digest of the bytes that
\* the run just made has fetched, parsed and committed, also when the sheet
\* was edited between the fetch of get_file_hash and the fetch of
\* run_seeding.
C21_DigestOfAppliedBytes ==
    [][last_hash' # last_hash =>
          /\ outcome[Watcher] = "ok"
          /\ last_hash' = Md5(content[Watcher])]_vars

\* C22: the lock is held only while a run is in progress: whichever way a
\* run that took the lock ends, also when the session cannot be opened, the
\* lock is free again once the run is over.
C22_LockHeldOnlyByARun == update_lock => \E p \in SyncProcs : InRun(p)

\* C23: when the watcher's call of run_seeding was skipped because the lock
\* was held, the watcher goes on with _last_hash as it was, so that the
\* next tick finds the same workbook changed again.
C23_SkippedTickKeepsDigest ==
    [][(Skipped(Watcher) /\ Moves(Watcher)) =>
          /\ last_hash' = last_hash
          /\ HasChanged(new_hash, last_hash')]_vars

\* C24: whatever calls of add_item_to_cart, update_cart_item_quantity and
\* remove_item_from_cart were made one after the other, every cart item has
\* a quantity of at least 1 and no user has two items of one product; and
\* an update that brought an item's quantity to zero or below has deleted
\* that item and returned None.
CartOk ==
    /\ \A i \in 1..Len(cart) : cart[i].quantity >= 1
    /\ \A i, j \in 1..Len(cart) :
          (cart[i].owner_id = cart[j].owner_id
           /\ cart[i].product_id = cart[j].product_id) => i = j

UpdateToZeroDeletes ==
    LET c == cart_result IN
    \A i \in CartMatching(c.before, c.user, c.product) :
        (c.op = "update" /\ c.before[i].quantity + c.amount <= 0) =>
            /\ c.value = None
            /\ cart = Delete(c.before, i)

C24_CartQuantitiesAndPairs == CartOk /\ UpdateToZeroDeletes

C24_Witness ==
    /\ cart_result.op = "update"
    /\ cart_result.value = None
    /\ Len(cart) = Len(cart_result.before) - 1
    /\ Len(cart) >= 1
    /\ \E i \in CartMatching(cart_result.before, cart_result.user,
                              cart_result.product) :
          /\ cart_result.before[i].quantity > 1
          /\ cart_result.before[i].quantity + cart_result.amount < 0

====
